---------------------------- MODULE Spec2Model ----------------------------
(***************************************************************************)
(* A model of the Sherlock Holmes corpus pipeline of GenSherlockLLM:       *)
(* src/data_prep/preprocess.py (download_books, clean_gutenberg,           *)
(* chunk_text, process_books) and src/eval/overlap_check.py (load_chunks,  *)
(* basic_stats).                                                           *)
(*                                                                         *)
(* A Python str is a sequence of one-character strings; a list is a        *)
(* sequence; a file is its content or Absent.                              *)
(***************************************************************************)
EXTENDS Integers, Sequences, FiniteSets, TLC

VARIABLES
    \* chunk_text(text, max_words, min_words, overlap), one loop turn a step
    text, max_words, min_words, overlap, words, chunks, start, iters, cpc,
    \* clean_gutenberg(raw_text): the pieces the text was put together from,
    \* the branch taken (what the function logs) and the string returned
    raw_text, parts, branch, story, kpc,
    \* overlap_check.py run as a script: the chunk files of data/cleaned in
    \* glob order, the chunks loaded and what each pass reported
    audit_files, all_chunks, stats, duplicates, samples, apc,
    \* preprocess.py run as a script: the files of data/raw, data/cleaned and
    \* data/manifests, the position of the run, the BOOKS still to download,
    \* the paths still to process, the manifest list being built
    raw, cleaned, manifestFile, pc, dlQueue, procQueue, manifest,
    \* what the runs have done: runs started, and in the current run the
    \* books requested from the network, the books skipped, the book whose
    \* download failed, the stems processed in order
    runs, fetched, skipped, failed, processed

chunkVars == <<text, max_words, min_words, overlap, words, chunks, start, iters, cpc>>
cleanVars == <<raw_text, parts, branch, story, kpc>>
auditVars == <<audit_files, all_chunks, stats, duplicates, samples, apc>>

fileVars == <<raw, cleaned, manifestFile>>
runVars == <<pc, dlQueue, procQueue, manifest, runs, fetched, skipped, failed, processed>>
pipeVars == <<fileVars, runVars>>

vars == <<chunkVars, cleanVars, auditVars, pipeVars>>

-----------------------------------------------------------------------------
(* Bounds of the model.                                                    *)

\* Largest number of words of a text handed to chunk_text on its own.
MaxN == 6
\* Largest max_words, min_words and overlap handed to chunk_text on its own.
MaxParam == 4
\* Loop turns allowed beyond len(words): only a loop that does not advance
\* takes them.
MaxExtraIter == 2
\* Largest number of pieces of the body of a text handed to clean_gutenberg
\* on its own.
MaxBody == 2
\* Largest number of chunk files the auditor finds in data/cleaned.
MaxAuditFiles == 3
\* Number of entries of BOOKS the pipeline is run with.
NumBooks == 2
\* Largest number of runs of the script.
MaxRuns == 2

-----------------------------------------------------------------------------
(* Constants of the program.                                               *)

\* chunk_text's defaults
DefaultMaxWords == 200
DefaultMinWords == 30
DefaultOverlap == 20
\* sample_chunks(all_chunks, n=5)
SampleCount == 5

-----------------------------------------------------------------------------
(* Python built-ins.                                                       *)

Min(a, b) == IF a <= b THEN a ELSE b
Max(a, b) == IF a >= b THEN a ELSE b

\* The elements of a sequence.
Range(s) == {s[i] : i \in 1..Len(s)}

\* The characters str.split() and the regex class \s treat as whitespace.
Whitespace == {" ", "\n", "\r", "\t"}

IsSpace(c) == c \in Whitespace

\* s[a:b] of Python: negative indexes count from the end, indexes are
\* clamped to the sequence, and a reversed range is empty.
PyIndex(n, i) == IF i < 0 THEN Max(i + n, 0) ELSE Min(i, n)

PySlice(s, a, b) == SubSeq(s, PyIndex(Len(s), a) + 1, PyIndex(Len(s), b))

\* The indexes 1..n as a sequence, for SelectSeq over positions.
Indexes(n) == [i \in 1..n |-> i]

\* str.split(): the maximal runs of non-whitespace characters, in order.
WordStarts(s) ==
    SelectSeq(Indexes(Len(s)),
              LAMBDA i : ~IsSpace(s[i]) /\ (i = 1 \/ IsSpace(s[i - 1])))

WordEnd(s, i) ==
    CHOOSE j \in i..Len(s) :
        /\ \A k \in i..j : ~IsSpace(s[k])
        /\ (j = Len(s) \/ IsSpace(s[j + 1]))

Split(s) ==
    LET st == WordStarts(s)
    IN  [k \in 1..Len(st) |-> SubSeq(s, st[k], WordEnd(s, st[k]))]

\* The concatenation of the sequences of ss, halved so that long lists do
\* not nest deeply.
RECURSIVE Flatten(_)
Flatten(ss) ==
    IF Len(ss) = 0 THEN <<>>
    ELSE IF Len(ss) = 1 THEN ss[1]
    ELSE Flatten(SubSeq(ss, 1, Len(ss) \div 2))
         \o Flatten(SubSeq(ss, (Len(ss) \div 2) + 1, Len(ss)))

\* " ".join(ws): a space before every word but the first.
Join(ws) ==
    Flatten([i \in 1..Len(ws) |-> IF i = 1 THEN ws[i] ELSE <<" ">> \o ws[i]])

-----------------------------------------------------------------------------
(* clean_gutenberg                                                         *)

UpperCase == <<"A", "B", "C", "D", "E", "F", "G", "H", "I", "J", "K", "L", "M", "N", "O", "P", "Q", "R", "S", "T", "U", "V", "W", "X", "Y", "Z">>
LowerCase == <<"a", "b", "c", "d", "e", "f", "g", "h", "i", "j", "k", "l", "m", "n", "o", "p", "q", "r", "s", "t", "u", "v", "w", "x", "y", "z">>

\* The case folding re.IGNORECASE compares letters under.
LowerOf == [i \in 1..26 |-> LowerCase[i]]
UpperSet == {UpperCase[i] : i \in 1..26}

Lower(c) ==
    IF c \in UpperSet
    THEN LowerOf[CHOOSE i \in 1..26 : UpperCase[i] = c]
    ELSE c

\* The literal lit occurs in t at position i (1-based), letter case ignored.
MatchLit(t, i, lit) ==
    /\ i >= 1
    /\ i + Len(lit) - 1 <= Len(t)
    /\ \A j \in 1..Len(lit) : Lower(t[i + j - 1]) = Lower(lit[j])

\* \s* from position i: the position of the first character that is not
\* whitespace, Len(t) + 1 when there is none.
SkipSpace(t, i) ==
    CHOOSE j \in i..(Len(t) + 1) :
        /\ (j = Len(t) + 1 \/ ~IsSpace(t[j]))
        /\ \A k \in i..(j - 1) : IsSpace(t[k])

\* \s+ from position i: the position after the run, 0 when no whitespace is
\* at i.
SkipSpace1(t, i) ==
    IF i <= Len(t) /\ IsSpace(t[i]) THEN SkipSpace(t, i) ELSE 0

Stars == <<"*", "*", "*">>
KwStart == <<"S", "T", "A", "R", "T">>
KwEnd == <<"E", "N", "D">>
KwOf == <<"O", "F">>
KwThe == <<"T", "H", "E">>
KwThis == <<"T", "H", "I", "S">>
KwProject == <<"P", "R", "O", "J", "E", "C", "T">>
KwGutenberg == <<"G", "U", "T", "E", "N", "B", "E", "R", "G">>
KwEbook == <<"E", "B", "O", "O", "K">>

\* A literal then \s+, from position i: the position after both, 0 when they
\* do not match. i = 0 is a failed match so far.
LitThenSpace(t, i, lit) ==
    IF i >= 1 /\ MatchLit(t, i, lit) THEN SkipSpace1(t, i + Len(lit)) ELSE 0

\* (?:THE|THIS)\s+ from position i.
ArticleThenSpace(t, i) ==
    IF i = 0 THEN 0
    ELSE IF LitThenSpace(t, i, KwThe) # 0 THEN LitThenSpace(t, i, KwThe)
    ELSE LitThenSpace(t, i, KwThis)

\* \*\*\*\s*KW\s+OF\s+(?:THE|THIS)\s+PROJECT\s+GUTENBERG\s+EBOOK at position
\* i: the position after EBOOK, 0 when the pattern does not match at i.
MarkerHead(t, i, kw) ==
    IF ~MatchLit(t, i, Stars) THEN 0
    ELSE LET p1 == LitThenSpace(t, SkipSpace(t, i + 3), kw)
             p2 == LitThenSpace(t, p1, KwOf)
             p3 == ArticleThenSpace(t, p2)
             p4 == LitThenSpace(t, p3, KwProject)
             p5 == LitThenSpace(t, p4, KwGutenberg)
         IN  IF p5 >= 1 /\ MatchLit(t, p5, KwEbook) THEN p5 + Len(KwEbook) ELSE 0

\* A greedy .*\*\*\* from position p: the position after the last ***.
LazyToStars_Greedy(t, p) ==
    IF \E j \in p..Len(t) : MatchLit(t, j, Stars)
    THEN 3 + (CHOOSE j \in p..Len(t) :
                 /\ MatchLit(t, j, Stars)
                 /\ \A k \in (j + 1)..Len(t) : ~MatchLit(t, k, Stars))
    ELSE 0

\* .*?\*\*\* from position p under re.DOTALL: the position after the first
\* *** at or after p, 0 when there is none.
LazyToStars(t, p) ==
    IF \E j \in p..Len(t) : MatchLit(t, j, Stars)
    THEN 3 + (CHOOSE j \in p..Len(t) :
                 /\ MatchLit(t, j, Stars)
                 /\ \A k \in p..(j - 1) : ~MatchLit(t, k, Stars))
    ELSE 0

\* The marker pattern matched at position i: the position after the match,
\* 0 when it does not match there.
MarkerAt(t, i, kw) ==
    LET h == MarkerHead(t, i, kw)
    IN  IF h = 0 THEN 0 ELSE LazyToStars(t, h)

\* re.search(pattern, text, re.IGNORECASE | re.DOTALL): the leftmost match,
\* with Python's 0-based start() and end().
MarkerSearch(t, kw) ==
    LET hits == SelectSeq(Indexes(Len(t)), LAMBDA i : MarkerAt(t, i, kw) # 0)
    IN  IF Len(hits) = 0 THEN [found |-> FALSE, start |-> 0, end |-> 0]
        ELSE [found |-> TRUE,
              start |-> hits[1] - 1,
              end   |-> MarkerAt(t, hits[1], kw) - 1]

\* The characters of t at the positions ks, in order.
Pick(t, ks) == [j \in 1..Len(ks) |-> t[ks[j]]]

\* text.replace("\r\n", "\n").replace("\r", "\n")
NormalizeNewlines(t) ==
    LET u == Pick(t, SelectSeq(Indexes(Len(t)),
                     LAMBDA i : ~(t[i] = "\r" /\ i < Len(t) /\ t[i + 1] = "\n")))
    IN  [i \in 1..Len(u) |-> IF u[i] = "\r" THEN "\n" ELSE u[i]]

\* str.strip()
Strip(t) ==
    IF \A i \in 1..Len(t) : IsSpace(t[i]) THEN <<>>
    ELSE LET a == SkipSpace(t, 1)
             b == CHOOSE j \in 1..Len(t) :
                      ~IsSpace(t[j]) /\ \A k \in (j + 1)..Len(t) : IsSpace(t[k])
         IN  SubSeq(t, a, b)

\* re.sub(r"_+", "", story_text)
RemoveUnderscores(t) ==
    Pick(t, SelectSeq(Indexes(Len(t)), LAMBDA i : t[i] # "_"))

\* re.sub(r"\s+", " ", story_text)
CollapseSpace(t) ==
    LET u == Pick(t, SelectSeq(Indexes(Len(t)),
                     LAMBDA i : ~IsSpace(t[i]) \/ i = 1 \/ ~IsSpace(t[i - 1])))
    IN  [i \in 1..Len(u) |-> IF IsSpace(u[i]) THEN " " ELSE u[i]]

KwContents == <<"c", "o", "n", "t", "e", "n", "t", "s">>
KwIDot == <<"I", ".">>

\* contents\s+I\. at position i, letter case ignored: the position after the
\* match, 0 when it does not match there.
ContentsAt(t, i) ==
    LET p == LitThenSpace(t, i, KwContents)
    IN  IF p >= 1 /\ MatchLit(t, p, KwIDot) THEN p + Len(KwIDot) ELSE 0

\* re.sub(r"(?i)contents\s+I\.", "", story_text); two matches never overlap.
RemoveContents(t) ==
    LET hits == SelectSeq(Indexes(Len(t)), LAMBDA i : ContentsAt(t, i) # 0)
    IN  Pick(t, SelectSeq(Indexes(Len(t)), LAMBDA i :
            ~\E h \in 1..Len(hits) : hits[h] <= i /\ i < ContentsAt(t, hits[h])))

\* The text between the markers (lines 73-75) or the middle 80% (lines 79-80).
StoryText(t, sm, em) ==
    IF sm.found /\ em.found
    THEN Strip(PySlice(t, sm.end, em.start))
    ELSE PySlice(t, Len(t) \div 10, (9 * Len(t)) \div 10)

\* Lines 83-88.
PostProcess(st) ==
    RemoveContents(Strip(CollapseSpace(RemoveUnderscores(st))))

clean_gutenberg(rt) ==
    LET t == NormalizeNewlines(rt)
        sm == MarkerSearch(t, KwStart)
        em == MarkerSearch(t, KwEnd)
    IN  PostProcess(StoryText(t, sm, em))

-----------------------------------------------------------------------------
(* chunk_text                                                              *)

\* chunk_words = words[start:start + max_words]
Window(ws, s, mx) == PySlice(ws, s, s + mx)

\* A floor that only refuses the empty window.
Keep_AnyWords(cw, mn) == Len(cw) > 0

\* A floor that refuses a window of exactly min_words words.
Keep_Strict(cw, mn) == Len(cw) > mn

\* if len(chunk_words) >= min_words
Keep(cw, mn) == Len(cw) >= mn

\* A step that forgets the overlap.
Advance_NoOverlap(s, mx, ov) == s + mx

\* start += max_words - overlap
Advance(s, mx, ov) == s + (mx - ov)

\* One turn of the while loop: the chunks and the start after it.
LoopTurn(ws, s, cs, mx, mn, ov) ==
    LET cw == Window(ws, s, mx)
    IN  [chunks |-> IF Keep(cw, mn) THEN Append(cs, Join(cw)) ELSE cs,
         start  |-> Advance(s, mx, ov)]

\* The whole function, for callers; it is called only with parameters for
\* which the loop ends.
RECURSIVE ChunkLoop(_, _, _, _, _, _)
ChunkLoop(ws, s, cs, mx, mn, ov) ==
    IF s < Len(ws)
    THEN LET t == LoopTurn(ws, s, cs, mx, mn, ov)
         IN  ChunkLoop(ws, t.start, t.chunks, mx, mn, ov)
    ELSE cs

chunk_text(t, mx, mn, ov) == ChunkLoop(Split(t), 0, <<>>, mx, mn, ov)

-----------------------------------------------------------------------------
(* Texts handed to chunk_text on its own: n distinct words, either joined  *)
(* by single spaces or laid out with runs of mixed whitespace around them. *)

Digit == <<"0", "1", "2", "3", "4", "5", "6", "7", "8", "9">>

RECURSIVE Digits(_)
Digits(i) == IF i < 10 THEN <<Digit[i + 1]>>
             ELSE Digits(i \div 10) \o <<Digit[(i % 10) + 1]>>

NumberWords(n) == [i \in 1..n |-> Digits(i)]

TightText(n) == Join(NumberWords(n))

LooseText(n) == <<"\n">> \o Flatten([i \in 1..n |-> Digits(i) \o <<" ", "\t">>])

ChunkTexts == {TightText(n) : n \in 0..MaxN} \cup {LooseText(n) : n \in 0..MaxN}

\* The state of a component that is not running.
ChunkIdle ==
    /\ text = <<>>
    /\ max_words = DefaultMaxWords
    /\ min_words = DefaultMinWords
    /\ overlap = DefaultOverlap
    /\ words = <<>>
    /\ chunks = <<>>
    /\ start = 0
    /\ iters = 0
    /\ cpc = "idle"

CleanIdle ==
    /\ raw_text = <<>>
    /\ parts = <<>>
    /\ branch = "none"
    /\ story = <<>>
    /\ kpc = "idle"

AuditIdle ==
    /\ audit_files = <<>>
    /\ all_chunks = <<>>
    /\ stats = <<>>
    /\ duplicates = <<>>
    /\ samples = <<>>
    /\ apc = "idle"

PipeIdle ==
    /\ raw = <<>>
    /\ cleaned = <<>>
    /\ manifestFile = <<>>
    /\ pc = "idle"
    /\ dlQueue = <<>>
    /\ procQueue = <<>>
    /\ manifest = <<>>
    /\ runs = 0
    /\ fetched = {}
    /\ skipped = {}
    /\ failed = "none"
    /\ processed = <<>>

ChunkInit ==
    /\ text \in ChunkTexts
    /\ max_words \in 0..MaxParam
    /\ min_words \in 0..MaxParam
    /\ overlap \in 0..MaxParam
    /\ words = <<>>
    /\ chunks = <<>>
    /\ start = 0
    /\ iters = 0
    /\ cpc = "call"
    /\ CleanIdle
    /\ AuditIdle
    /\ PipeIdle

\* lines 100-103
ChunkCall ==
    /\ cpc = "call"
    /\ words' = Split(text)
    /\ chunks' = <<>>
    /\ start' = 0
    /\ cpc' = "loop"
    /\ UNCHANGED <<text, max_words, min_words, overlap, iters, cleanVars, auditVars, pipeVars>>

\* lines 104-109
ChunkTurn ==
    /\ cpc = "loop"
    /\ start < Len(words)
    /\ iters < Len(words) + MaxExtraIter
    /\ LET t == LoopTurn(words, start, chunks, max_words, min_words, overlap)
       IN  /\ chunks' = t.chunks
           /\ start' = t.start
    /\ iters' = iters + 1
    /\ UNCHANGED <<text, max_words, min_words, overlap, words, cpc, cleanVars, auditVars, pipeVars>>

\* line 111
ChunkReturn ==
    /\ cpc = "loop"
    /\ ~(start < Len(words))
    /\ cpc' = "returned"
    /\ UNCHANGED <<text, max_words, min_words, overlap, words, chunks, start, iters, cleanVars, auditVars, pipeVars>>

ChunkNext == ChunkCall \/ ChunkTurn \/ ChunkReturn

SpecChunk == ChunkInit /\ [][ChunkNext]_vars

-----------------------------------------------------------------------------
(* Properties of chunk_text.                                               *)

\* The words of a chunk, as a reader of the chunk's text counts them.
ChunkWords(i) == Split(chunks[i])

\* s[:k] and the last k elements of s, for k >= 0.
FirstWords(s, k) == SubSeq(s, 1, Min(k, Len(s)))
LastWords(s, k) == SubSeq(s, Len(s) - Min(k, Len(s)) + 1, Len(s))

ValidParams == overlap < max_words

\* C1: with overlap < max_words, every chunk chunk_text has emitted holds at
\* least min_words and at most max_words words.
C1_ChunkBounds ==
    ValidParams =>
        \A i \in 1..Len(chunks) :
            /\ min_words <= Len(ChunkWords(i))
            /\ Len(ChunkWords(i)) <= max_words

\* C1 witness: a call that returned several chunks, the last one shorter than
\* max_words, after dropping a trailing window below the floor.
C1_Witness ==
    /\ cpc = "returned"
    /\ ValidParams
    /\ min_words >= 2
    /\ Len(chunks) >= 2
    /\ Len(ChunkWords(Len(chunks))) < max_words
    /\ iters > Len(chunks)

\* C2 as stated: with overlap < max_words, each chunk begins with exactly
\* `overlap` words, and they are the last `overlap` words of the chunk
\* before it.
C2_ExactOverlap ==
    ValidParams =>
        \A i \in 1..(Len(chunks) - 1) :
            /\ Len(ChunkWords(i + 1)) >= overlap
            /\ Len(ChunkWords(i)) >= overlap
            /\ FirstWords(ChunkWords(i + 1), overlap) = LastWords(ChunkWords(i), overlap)

\* C2 amended: with overlap < max_words, consecutive chunks i and i+1 share
\* exactly k = min(overlap, word count of chunk i+1) words, the first k of
\* chunk i+1 being the last k of chunk i; k = overlap for every pair when
\* min_words >= overlap. (The words of the texts are pairwise distinct, so
\* the shared words are counted by intersecting.)
C2_SharedWords ==
    ValidParams =>
        \A i \in 1..(Len(chunks) - 1) :
            LET a == ChunkWords(i)
                b == ChunkWords(i + 1)
                k == Min(overlap, Len(b))
            IN  /\ Len(a) >= k
                /\ FirstWords(b, k) = LastWords(a, k)
                /\ Cardinality(Range(a) \cap Range(b)) = k
                /\ (min_words >= overlap => k = overlap)

\* C2 witness: a call that returned a last chunk shorter than the overlap,
\* wholly contained in the chunk before it.
C2_Witness ==
    /\ cpc = "returned"
    /\ ValidParams
    /\ overlap >= 2
    /\ Len(chunks) >= 3
    /\ Len(ChunkWords(Len(chunks))) < overlap
    /\ Len(ChunkWords(2)) >= overlap

\* C3 as stated: a call with overlap >= max_words ends at once in a
\* ConfigError; it never enters the loop and never returns a result.
C3_FailsFast ==
    (overlap >= max_words /\ cpc \notin {"idle", "call"}) => cpc = "ConfigError"

\* C4 as stated, for a text of at least one word: with overlap < max_words
\* and min_words <= n <= max_words, the call returns exactly one chunk, of
\* all n words in order.
C4_OneChunk ==
    (/\ cpc = "returned"
     /\ ValidParams
     /\ Len(words) >= 1
     /\ min_words <= Len(words)
     /\ Len(words) <= max_words)
    => (Len(chunks) = 1 /\ ChunkWords(1) = words)

\* C4 amended: with overlap < max_words and a text of n >= 1 words,
\* min_words <= n <= max_words, the first chunk holds all n words in order;
\* it is the only chunk when n - (max_words - overlap) < max(min_words, 1),
\* which covers n = min_words and every n when overlap < min_words, and
\* otherwise the tail of the text is emitted again as further chunks.
C4_OneChunkUnlessTail ==
    (/\ cpc = "returned"
     /\ ValidParams
     /\ Len(words) >= 1
     /\ min_words <= Len(words)
     /\ Len(words) <= max_words)
    => /\ Len(chunks) >= 1
       /\ ChunkWords(1) = words
       /\ (Len(chunks) = 1) <=>
              (Len(words) - (max_words - overlap) < Max(min_words, 1))
       /\ (Len(words) = min_words => Len(chunks) = 1)
       /\ (overlap < min_words => Len(chunks) = 1)

\* C4 witness: a text of exactly min_words words, shorter than max_words,
\* returned as one chunk after later windows were looked at and dropped.
C4_Witness ==
    /\ cpc = "returned"
    /\ ValidParams
    /\ overlap >= 1
    /\ Len(words) = min_words
    /\ min_words >= 2
    /\ min_words < max_words
    /\ iters >= 2
    /\ Len(chunks) = 1
    /\ ChunkWords(1) = words

-----------------------------------------------------------------------------
(* clean_gutenberg on its own: texts put together as                       *)
(* pre + marker + body + marker + post.                                    *)

StartMarkerUpper == <<"*", "*", "*", " ", "S", "T", "A", "R", "T", " ", "O", "F", " ", "T", "H", "E", " ", "P", "R", "O", "J", "E", "C", "T", " ", "G", "U", "T", "E", "N", "B", "E", "R", "G", " ", "E", "B", "O", "O", "K", " ", "X", " ", "*", "*", "*">>
StartMarkerLower == <<"*", "*", "*", "s", "t", "a", "r", "t", " ", "o", "f", " ", "t", "h", "i", "s", " ", "p", "r", "o", "j", "e", "c", "t", "\n", "g", "u", "t", "e", "n", "b", "e", "r", "g", " ", "e", "b", "o", "o", "k", "*", "*", "*">>
EndMarkerUpper == <<"*", "*", "*", " ", "E", "N", "D", " ", "O", "F", " ", "T", "H", "E", " ", "P", "R", "O", "J", "E", "C", "T", " ", "G", "U", "T", "E", "N", "B", "E", "R", "G", " ", "E", "B", "O", "O", "K", " ", "X", " ", "*", "*", "*">>
EndMarkerMixed == <<"*", "*", "*", "E", "n", "d", " ", "O", "f", " ", "T", "h", "i", "s", " ", " ", "P", "r", "o", "j", "e", "c", "t", " ", "G", "u", "t", "e", "n", "b", "e", "r", "g", " ", "E", "B", "o", "o", "k", " ", "x", "*", "*", "*">>
StartMarkerOpen == <<"*", "*", "*", " ", "S", "T", "A", "R", "T", " ", "O", "F", " ", "T", "H", "E", " ", "P", "R", "O", "J", "E", "C", "T", " ", "G", "U", "T", "E", "N", "B", "E", "R", "G", " ", "E", "B", "O", "O", "K", " ", "X">>

StartMarkers == {StartMarkerUpper, StartMarkerLower}
EndMarkers == {EndMarkerUpper, EndMarkerMixed}
MarkerChoices == StartMarkers \cup EndMarkers \cup {StartMarkerOpen, <<>>}

\* What surrounds the markers: nothing, or a preface and a licence.
FrameChoices ==
    { [pre |-> <<>>, post |-> <<>>],
      [pre |-> <<"P", "r", "e", "f", "a", "c", "e", "\r", "\n">>, post |-> <<"\n", "L", "i", "c", "e", "n", "s", "e">>] }

BodyPieces ==
    { <<"H", "o", "l", "m", "e", "s">>,
      <<" ">>,
      <<"_", "a", "_">>,
      <<"\r", "\n">>,
      <<"C", "o", "n", "t", "e", "n", "t", "s", " ", "I", ".">>,
      <<"*", "*", "*">> }

Bodies == {Flatten(b) : b \in UNION {[1..k -> BodyPieces] : k \in 0..MaxBody}}

CleanInit ==
    /\ \E f \in FrameChoices, m1 \in MarkerChoices, m2 \in MarkerChoices, b \in Bodies :
           parts = [pre |-> f.pre, m1 |-> m1, body |-> b, m2 |-> m2, post |-> f.post]
    /\ raw_text = parts.pre \o parts.m1 \o parts.body \o parts.m2 \o parts.post
    /\ branch = "none"
    /\ story = <<>>
    /\ kpc = "call"
    /\ ChunkIdle
    /\ AuditIdle
    /\ PipeIdle

\* The branch of line 71 as the function logs it (lines 76 and 78).
LoggedBranch(sm, em) == IF sm.found /\ em.found THEN "markers" ELSE "fallback"

\* lines 61-90
Clean ==
    /\ kpc = "call"
    /\ LET t == NormalizeNewlines(raw_text)
           sm == MarkerSearch(t, KwStart)
           em == MarkerSearch(t, KwEnd)
       IN  /\ branch' = LoggedBranch(sm, em)
           /\ story' = PostProcess(StoryText(t, sm, em))
    /\ kpc' = "returned"
    /\ UNCHANGED <<raw_text, parts, chunkVars, auditVars, pipeVars>>

CleanNext == Clean

SpecClean == CleanInit /\ [][CleanNext]_vars

-----------------------------------------------------------------------------
(* Properties of clean_gutenberg.                                          *)

\* Underscores removed, whitespace runs collapsed to one space, trimmed.
Normalized(t) == Strip(CollapseSpace(RemoveUnderscores(t)))

\* The characters of the text lying after the first start-marker match and
\* before the first end-marker match; none when the end marker starts before
\* the start marker ends.
TextBetweenMarkers ==
    LET t == NormalizeNewlines(raw_text)
        s == MarkerSearch(t, KwStart).end
        e == MarkerSearch(t, KwEnd).start
    IN  [i \in 1..Max(e - s, 0) |-> t[s + i]]

\* The text is one start marker, a body, and one end marker after it.
StartBodyEnd == kpc # "idle" /\ parts.m1 \in StartMarkers /\ parts.m2 \in EndMarkers

\* The text is one end marker and one start marker after it.
EndBodyStart == kpc # "idle" /\ parts.m1 \in EndMarkers /\ parts.m2 \in StartMarkers

\* C8 as stated: with both markers in the text, the result is the text
\* between the first start-marker match and the first end-marker match with
\* underscores removed and whitespace normalized, whatever the order and the
\* letter case of the markers; for START-marker BODY END-marker it is BODY
\* so normalized.
C8_TextBetween ==
    (kpc = "returned" /\ branch = "markers") =>
        /\ story = Normalized(TextBetweenMarkers)
        /\ (StartBodyEnd => story = Normalized(parts.body))

\* C8 amended: with both markers in the text, the result is the text between
\* the first start-marker match and the first end-marker match (nothing when
\* the end-marker match starts before the start-marker match ends) with
\* underscores removed, whitespace normalized and then every "contents I."
\* fragment (any letter case) removed; for START-marker BODY END-marker it is
\* BODY so treated, and for END-marker ... START-marker it is empty.
C8_TextBetweenLessContents ==
    (kpc = "returned" /\ branch = "markers") =>
        /\ story = RemoveContents(Normalized(TextBetweenMarkers))
        /\ (StartBodyEnd => story = RemoveContents(Normalized(parts.body)))
        /\ (EndBodyStart => story = <<>>)

\* C8 witness: START-marker BODY END-marker with a lower-case start marker
\* and a body holding a "contents I." fragment next to other words, cleaned
\* to a non-empty result that is not the normalized body.
C8_Witness ==
    /\ kpc = "returned"
    /\ branch = "markers"
    /\ StartBodyEnd
    /\ parts.m1 = StartMarkerLower
    /\ story # <<>>
    /\ story # Normalized(parts.body)

-----------------------------------------------------------------------------
(* overlap_check.py                                                        *)

\* The chunk files the auditor may find: records of id and text.
AuditRecord(stem, i, t) == [id |-> <<stem, i>>, text |-> t]

AuditFileChoices ==
    { <<>>,
      <<AuditRecord("adventures", 0, TightText(3))>>,
      <<AuditRecord("memoirs", 0, TightText(3)),
        AuditRecord("memoirs", 1, LooseText(2))>>,
      <<AuditRecord("return", 0, TightText(1)),
        AuditRecord("return", 1, TightText(1)),
        AuditRecord("return", 2, TightText(4))>> }

AuditInit ==
    /\ audit_files \in UNION {[1..k -> AuditFileChoices] : k \in 0..MaxAuditFiles}
    /\ all_chunks = <<>>
    /\ stats = <<>>
    /\ duplicates = <<>>
    /\ samples = <<>>
    /\ apc = "load"
    /\ ChunkIdle
    /\ CleanIdle
    /\ PipeIdle

\* load_chunks(): every record of every file as (id, text), in file order.
RECURSIVE load_chunks(_)
load_chunks(files) ==
    IF Len(files) = 0 THEN <<>>
    ELSE load_chunks(SubSeq(files, 1, Len(files) - 1))
         \o [i \in 1..Len(files[Len(files)]) |->
                <<files[Len(files)][i].id, files[Len(files)][i].text>>]

RECURSIVE Sum(_)
Sum(ns) == IF Len(ns) = 0 THEN 0 ELSE ns[Len(ns)] + Sum(SubSeq(ns, 1, Len(ns) - 1))

\* word_counts = [len(text.split()) for _, text in chunks]
WordCounts(cs) == [i \in 1..Len(cs) |-> Len(Split(cs[i][2]))]

\* total_chunks = len(chunks), the divisor of line 34
TotalChunks(cs) == Len(cs)

\* Lines 32-36 when the division is defined. The average is kept as the
\* exact fraction sum / total.
basic_stats(cs) ==
    LET wc == WordCounts(cs)
    IN  [total |-> TotalChunks(cs),
         avg   |-> <<Sum(wc), TotalChunks(cs)>>,
         min   |-> CHOOSE m \in Range(wc) : \A x \in Range(wc) : m <= x,
         max   |-> CHOOSE m \in Range(wc) : \A x \in Range(wc) : m >= x]

\* Counter(texts) filtered to count > 1, in first-occurrence order.
detect_duplicates(cs) ==
    LET firsts == SelectSeq(Indexes(Len(cs)),
                      LAMBDA i : /\ \A j \in 1..(i - 1) : cs[j][2] # cs[i][2]
                                 /\ \E j \in (i + 1)..Len(cs) : cs[j][2] = cs[i][2])
    IN  [k \in 1..Len(firsts) |->
            <<cs[firsts[k]][2],
              Cardinality({j \in 1..Len(cs) : cs[j][2] = cs[firsts[k]][2]})>>]

\* chunks[:n]
sample_chunks(cs, n) == PySlice(cs, 0, n)

\* line 69
AuditLoad ==
    /\ apc = "load"
    /\ all_chunks' = load_chunks(audit_files)
    /\ apc' = "stats"
    /\ UNCHANGED <<audit_files, stats, duplicates, samples, chunkVars, cleanVars, pipeVars>>

\* line 70, lines 32-42
AuditStats ==
    /\ apc = "stats"
    /\ TotalChunks(all_chunks) # 0
    /\ stats' = basic_stats(all_chunks)
    /\ apc' = "duplicates"
    /\ UNCHANGED <<audit_files, all_chunks, duplicates, samples, chunkVars, cleanVars, pipeVars>>

\* line 70, line 34: sum([]) / 0 raises ZeroDivisionError, which nothing
\* catches, and the script ends.
AuditStatsRaises ==
    /\ apc = "stats"
    /\ TotalChunks(all_chunks) = 0
    /\ apc' = "ZeroDivisionError"
    /\ UNCHANGED <<audit_files, all_chunks, stats, duplicates, samples, chunkVars, cleanVars, pipeVars>>

\* line 71
AuditDuplicates ==
    /\ apc = "duplicates"
    /\ duplicates' = detect_duplicates(all_chunks)
    /\ apc' = "samples"
    /\ UNCHANGED <<audit_files, all_chunks, stats, samples, chunkVars, cleanVars, pipeVars>>

\* line 72
AuditSamples ==
    /\ apc = "samples"
    /\ samples' = sample_chunks(all_chunks, SampleCount)
    /\ apc' = "done"
    /\ UNCHANGED <<audit_files, all_chunks, stats, duplicates, chunkVars, cleanVars, pipeVars>>

AuditNext ==
    AuditLoad \/ AuditStats \/ AuditStatsRaises \/ AuditDuplicates \/ AuditSamples

SpecAudit == AuditInit /\ [][AuditNext]_vars

\* C7 as stated: the statistics pass over an empty chunk set ends in
\* EmptyDatasetError, not in a division by zero.
C7_EmptyDatasetError ==
    (apc \notin {"idle", "load", "stats"} /\ Len(all_chunks) = 0)
        => apc = "EmptyDatasetError"

-----------------------------------------------------------------------------
(* preprocess.py run as a script: download_books() then process_books().   *)

\* The keys of BOOKS in the order of the dict.
AllBooks ==
    <<"study_in_scarlet", "sign_of_four", "hound_baskervilles",
      "valley_of_fear", "adventures", "memoirs", "return", "his_last_bow",
      "casebook">>

BookOrder == SubSeq(AllBooks, 1, NumBooks)
Books == Range(BookOrder)

\* A text file of data/raw that is no entry of BOOKS.
NotesStem == "notes"
Stems == Books \cup {NotesStem}

\* A file: absent, or present with its content.
Absent == [exists |-> FALSE, content |-> <<>>]
File(c) == [exists |-> TRUE, content |-> c]

\* The documents the server holds: the number of words of the story of each
\* book, laid out between Gutenberg markers.
StoryWords == <<230, 35, 12, 405, 30, 200, 29, 201, 0>>

BookIndex(b) == CHOOSE i \in 1..Len(AllBooks) : AllBooks[i] = b

ServerText(i) ==
    IF i % 2 = 1
    THEN StartMarkerUpper \o <<"\r", "\n">> \o TightText(StoryWords[i])
         \o <<"\r", "\n">> \o EndMarkerUpper \o <<"\r", "\n", "L", "i", "c", "e", "n", "s", "e">>
    ELSE <<"P", "r", "e", "f", "a", "c", "e", "\n">> \o StartMarkerLower \o LooseText(StoryWords[i])
         \o EndMarkerMixed

Doc == [b \in Books |-> ServerText(BookIndex(b))]

NotesText == <<"N", "o", "t", "e", "s", "_", "o", "n", "_", "t", "h", "e", "_", "c", "a", "n", "o", "n", " ">> \o TightText(45)

\* What an interrupted dest.write_text(r.text) leaves: the file is created
\* when it is opened, and holds the characters written so far.
PartialCuts(d) == {0, Len(d) \div 2}
PartialTexts(d) == {SubSeq(d, 1, c) : c \in PartialCuts(d)}

RawContents ==
    {Doc[b] : b \in Books} \cup UNION {PartialTexts(Doc[b]) : b \in Books}
    \cup {NotesText}

\* chunks = chunk_text(clean_gutenberg(raw_text)), lines 120-121, for every
\* content a raw file can have.
Chunked ==
    [c \in RawContents |->
        chunk_text(clean_gutenberg(c), DefaultMaxWords, DefaultMinWords, DefaultOverlap)]

\* An exists-check that never finds the file.
dest_exists_Never(files, name) == FALSE

\* dest.exists(), line 44
dest_exists(files, name) == files[name].exists

\* A failed fetch that is caught, the loop going on with the next book.
AfterFetchError_Continue == "download"

\* requests.get or raise_for_status raises (lines 48-49) and nothing catches
\* it: the script ends.
AfterFetchError == "aborted"

\* An enumeration that counts from one.
Enumerate_FromOne(cs) == [i \in 1..Len(cs) |-> <<i, cs[i]>>]

\* enumerate(chunks), line 124
Enumerate(cs) == [i \in 1..Len(cs) |-> <<i - 1, cs[i]>>]

\* f"{path.stem}_{i}", line 124: the stem and the index, which the string
\* determines and is determined by.
ChunkId(stem, i) == <<stem, i>>

\* json_data, line 124
JsonData(stem, cs) ==
    LET e == Enumerate(cs)
    IN  [k \in 1..Len(e) |-> [id |-> ChunkId(stem, e[k][1]), text |-> e[k][2]]]

\* The manifest entry of line 127.
ManifestEntry(stem, cs) == [book |-> stem, chunks |-> Len(cs)]

\* What data/cleaned and data/manifests may hold from an older version of
\* the script.
StaleChunkFile(stem) ==
    File(<<[id |-> ChunkId(stem, 0), text |-> TightText(2)],
           [id |-> ChunkId(stem, 7), text |-> TightText(3)]>>)
StaleManifest == File(<<[book |-> "old_book", chunks |-> 9]>>)

\* The orders RAW_DIR.glob("*.txt") may list the files of a set in.
Orders(S) ==
    {q \in [1..Cardinality(S) -> S] : \A i, j \in 1..Cardinality(S) : q[i] = q[j] => i = j}

Init ==
    /\ \E have \in SUBSET Stems :
           raw = [s \in Stems |->
                     IF s \notin have THEN Absent
                     ELSE IF s = NotesStem THEN File(NotesText) ELSE File(Doc[s])]
    /\ \E stale \in BOOLEAN :
           /\ cleaned = [s \in Stems |-> IF stale THEN StaleChunkFile(s) ELSE Absent]
           /\ manifestFile = IF stale THEN StaleManifest ELSE Absent
    /\ pc = "start"
    /\ dlQueue = <<>>
    /\ procQueue = <<>>
    /\ manifest = <<>>
    /\ runs = 0
    /\ fetched = {}
    /\ skipped = {}
    /\ failed = "none"
    /\ processed = <<>>
    /\ ChunkIdle
    /\ CleanIdle
    /\ AuditIdle

\* python src/data_prep/preprocess.py: line 138 enters download_books.
StartRun ==
    /\ pc \in {"start", "done", "aborted"}
    /\ runs < MaxRuns
    /\ runs' = runs + 1
    /\ pc' = "download"
    /\ dlQueue' = BookOrder
    /\ procQueue' = <<>>
    /\ manifest' = <<>>
    /\ fetched' = {}
    /\ skipped' = {}
    /\ failed' = "none"
    /\ processed' = <<>>
    /\ UNCHANGED <<fileVars, chunkVars, cleanVars, auditVars>>

\* lines 43-46: the file is there, the book is skipped.
DownloadSkip ==
    /\ pc = "download"
    /\ dlQueue # <<>>
    /\ dest_exists(raw, Head(dlQueue))
    /\ skipped' = skipped \cup {Head(dlQueue)}
    /\ dlQueue' = Tail(dlQueue)
    /\ UNCHANGED <<fileVars, pc, procQueue, manifest, runs, fetched, failed, processed,
                   chunkVars, cleanVars, auditVars>>

\* lines 43-50: the request succeeds and the whole text is written.
DownloadBook ==
    /\ pc = "download"
    /\ dlQueue # <<>>
    /\ ~dest_exists(raw, Head(dlQueue))
    /\ fetched' = fetched \cup {Head(dlQueue)}
    /\ raw' = [raw EXCEPT ![Head(dlQueue)] = File(Doc[Head(dlQueue)])]
    /\ dlQueue' = Tail(dlQueue)
    /\ UNCHANGED <<cleaned, manifestFile, pc, procQueue, manifest, runs, skipped, failed,
                   processed, chunkVars, cleanVars, auditVars>>

\* lines 43-49: the request times out or the response is no success.
DownloadFetchFails ==
    /\ pc = "download"
    /\ dlQueue # <<>>
    /\ ~dest_exists(raw, Head(dlQueue))
    /\ fetched' = fetched \cup {Head(dlQueue)}
    /\ failed' = Head(dlQueue)
    /\ pc' = AfterFetchError
    /\ dlQueue' = IF AfterFetchError = "download" THEN Tail(dlQueue) ELSE dlQueue
    /\ UNCHANGED <<fileVars, procQueue, manifest, runs, skipped, processed,
                   chunkVars, cleanVars, auditVars>>

\* lines 43-50: the request succeeds and dest.write_text fails or is
\* interrupted after it has created the file.
DownloadWriteFails ==
    /\ pc = "download"
    /\ dlQueue # <<>>
    /\ ~dest_exists(raw, Head(dlQueue))
    /\ fetched' = fetched \cup {Head(dlQueue)}
    /\ \E t \in PartialTexts(Doc[Head(dlQueue)]) :
           raw' = [raw EXCEPT ![Head(dlQueue)] = File(t)]
    /\ failed' = Head(dlQueue)
    /\ pc' = "aborted"
    /\ UNCHANGED <<cleaned, manifestFile, dlQueue, procQueue, manifest, runs, skipped,
                   processed, chunkVars, cleanVars, auditVars>>

\* lines 51, 139, 116-117: download_books returns and process_books lists
\* the text files of data/raw.
StartProcess ==
    /\ pc = "download"
    /\ dlQueue = <<>>
    /\ pc' = "process"
    /\ manifest' = <<>>
    /\ procQueue' \in Orders({s \in Stems : raw[s].exists})
    /\ UNCHANGED <<fileVars, dlQueue, runs, fetched, skipped, failed, processed,
                   chunkVars, cleanVars, auditVars>>

\* lines 118-128: one file is read, cleaned, chunked and its chunk file
\* written over whatever was there.
ProcessBook ==
    /\ pc = "process"
    /\ procQueue # <<>>
    /\ LET stem == Head(procQueue)
           cs == Chunked[raw[stem].content]
       IN  /\ cleaned' = [cleaned EXCEPT ![stem] = File(JsonData(stem, cs))]
           /\ manifest' = Append(manifest, ManifestEntry(stem, cs))
           /\ processed' = Append(processed, stem)
    /\ procQueue' = Tail(procQueue)
    /\ UNCHANGED <<raw, manifestFile, pc, dlQueue, runs, fetched, skipped, failed,
                   chunkVars, cleanVars, auditVars>>

\* lines 131-133, 140
SaveManifest ==
    /\ pc = "process"
    /\ procQueue = <<>>
    /\ manifestFile' = File(manifest)
    /\ pc' = "done"
    /\ UNCHANGED <<raw, cleaned, dlQueue, procQueue, manifest, runs, fetched, skipped,
                   failed, processed, chunkVars, cleanVars, auditVars>>

Next ==
    \/ StartRun
    \/ DownloadSkip
    \/ DownloadBook
    \/ DownloadFetchFails
    \/ DownloadWriteFails
    \/ StartProcess
    \/ ProcessBook
    \/ SaveManifest

Spec == Init /\ [][Next]_vars

-----------------------------------------------------------------------------
(* Properties of the runs of preprocess.py.                                *)

\* C5: once the raw file of a stem exists, no step of any run requests that
\* book from the network and no step changes the file.
C5_NoRefetch ==
    [][\A s \in Stems :
          raw[s].exists =>
              /\ raw'[s] = raw[s]
              /\ (s \in fetched' => s \in fetched)]_vars

\* C5 witness: a second or later run that found every book on disk, skipped
\* them all, requested nothing and ran to its end.
C5_Witness ==
    /\ pc = "done"
    /\ runs >= 2
    /\ skipped = Books
    /\ fetched = {}

\* C6 as stated: a raw file of a book exists only if it holds the complete
\* document the server sent.
C6_OnlyCompleteFiles ==
    \A b \in Books : pc # "idle" /\ raw[b].exists => raw[b].content = Doc[b]

\* The chunks process_books emits for a stem from the raw file as it is.
EmittedChunks(s) == Chunked[raw[s].content]

\* C9: after a completed run, for every stem processed in it the chunk file
\* holds exactly the chunks emitted, in order, with ids stem_0 .. stem_(k-1),
\* and the manifest file holds one entry per processed stem, in processing
\* order, whose count is the number k of records of the chunk file.
C9_ChunkFilesAndManifest ==
    pc = "done" =>
        /\ manifestFile.exists
        /\ Len(manifestFile.content) = Len(processed)
        /\ Range(processed) = {s \in Stems : raw[s].exists}
        /\ \A i \in 1..Len(processed) :
               LET s == processed[i]
                   recs == cleaned[s].content
               IN  /\ cleaned[s].exists
                   /\ Len(recs) = Len(EmittedChunks(s))
                   /\ \A k \in 1..Len(recs) :
                          /\ recs[k].id = ChunkId(s, k - 1)
                          /\ recs[k].text = EmittedChunks(s)[k]
                   /\ manifestFile.content[i] = [book |-> s, chunks |-> Len(recs)]
                   /\ Cardinality({j \in 1..Len(manifestFile.content) :
                                      manifestFile.content[j].book = s}) = 1

\* C9 witness: a completed second or later run over several corpora, among
\* them one of several chunks and one of no chunk.
C9_Witness ==
    /\ pc = "done"
    /\ runs >= 2
    /\ Len(processed) >= 2
    /\ \E s \in Range(processed) : Len(cleaned[s].content) >= 2
    /\ \E s \in Range(processed) : Len(cleaned[s].content) = 0

\* The books that come before b in BOOKS.
EarlierBooks(b) == {BookOrder[i] : i \in 1..(BookIndex(b) - 1)}

\* C10 as stated, its first half: a book is requested from the network only
\* after the chunk file of every earlier book has been written in this run.
C10_OneDocumentAtATime ==
    \A b \in fetched : EarlierBooks(b) \subseteq Range(processed)

\* C10 amended: every book of BOOKS is on disk, and the download loop has
\* ended, before any document is cleaned or chunked; and a failed fetch ends
\* the whole run: no later book is requested, nothing is processed and no
\* manifest is built.
C10_FetchAllThenProcess ==
    /\ (pc \in {"process", "done"} \/ processed # <<>>) =>
           /\ dlQueue = <<>>
           /\ \A b \in Books : raw[b].exists
           /\ failed = "none"
    /\ failed # "none" =>
           /\ pc = "aborted"
           /\ processed = <<>>
           /\ manifest = <<>>
           /\ \A b \in Books : failed \in EarlierBooks(b) => b \notin fetched

\* C10 witness: a run in which the first book was fetched and written, the
\* fetch of the second failed, and the run ended with the first book unprocessed
\* and the books after it never requested.
C10_Witness ==
    /\ pc = "aborted"
    /\ failed = BookOrder[2]
    /\ BookOrder[1] \in fetched
    /\ ~raw[BookOrder[2]].exists
    /\ ~cleaned[BookOrder[1]].exists

=============================================================================
